---- MODULE Spec2Model ----
(***************************************************************************)
(* Model of the controller-manager bootstrap of cluster-api-provider-metal3 *)
(* (src/main.go): the TLS policy builder GetTLSOptionOverrideFuncs, the API *)
(* readiness gate waitForAPIs, the reconciler and webhook registration and  *)
(* the sequence of main().  The state starts after pflag.Parse(): the flag  *)
(* variables hold their resolved values.  Calls into libraries whose result *)
(* the program only branches on (ValidateAndApply, NewManager, discovery,   *)
(* SetupWithManager, mgr.Start) answer nondeterministically.                *)
(***************************************************************************)
EXTENDS Integers, Sequences, FiniteSets, TLC

\* ------------------------------------------------------------------ bounds
\* Longest --tls-cipher-suites string (in characters) the builder is given.
MaxCipherLen == 3
\* Most discovery failures the cluster answers before the API group is served.
MaxDiscoveryFailures == 3

\* ------------------------------------------------------- program constants
\* crypto/tls VersionTLS12 (0x0303) and VersionTLS13 (0x0304).
VersionTLS12 == 771
VersionTLS13 == 772
\* time.Sleep(time.Second * 10)
SleepSeconds == 10

TLSVersion12 == "TLS12"
TLSVersion13 == "TLS13"

\* The version labels a deployment may pass: the two supported ones, an
\* older label, and the empty string.
VersionLabels == {TLSVersion12, TLSVersion13, "TLS11", ""}

\* A flag string is a sequence of characters.  Cipher names are built of
\* these characters; "," is the separator of --tls-cipher-suites.
CipherChars == {"A", "I", "X", ","}

\* The registry behind cliflag.TLSCipherSuites: name -> cipher identifier.
\* <<"A">> is a preferred suite, <<"I">> is an insecure one; every other
\* name (<<"X">>, <<"A","A">>, the empty name <<>>, ...) is unknown.
CipherRegistry == {[name |-> <<"A">>, id |-> 1], [name |-> <<"I">>, id |-> 2]}

\* cliflag.InsecureTLSCipherNames()
InsecureTLSCipherNames == {<<"I">>}

ErrNil == "nil"
ErrInvalidTLSVersion == "InvalidTLSVersion"
ErrTLSRangeInverted == "TLSRangeInverted"
ErrUnknownCipherSuite == "UnknownCipherSuite"

WarnCiphersIgnored == "warning: Cipher suites should not be set for TLS version 1.3. Ignoring ciphers"
WarnInsecureCipher == "warning: use of insecure cipher detected"

\* ------------------------------------------------------------- TLS builder

\* strings.Split(s, ","): the pieces between separators; Split of a string
\* with k separators has k+1 pieces, empty pieces included.
RECURSIVE SplitFrom(_, _, _)
SplitFrom(s, i, cur) ==
    IF i > Len(s) THEN <<cur>>
    ELSE IF s[i] = "," THEN <<cur>> \o SplitFrom(s, i + 1, <<>>)
    ELSE SplitFrom(s, i + 1, Append(cur, s[i]))

Split(s) == SplitFrom(s, 1, <<>>)

\* cliflag.TLSCipherSuites(names): every name looked up in order; the first
\* name that is not in the registry fails the whole call.
RECURSIVE TLSCipherSuites(_)
TLSCipherSuites(names) ==
    IF names = <<>> THEN [suites |-> <<>>, err |-> ErrNil]
    ELSE LET hit == {c \in CipherRegistry : c.name = Head(names)}
         IN  IF hit = {} THEN [suites |-> <<>>, err |-> ErrUnknownCipherSuite]
             ELSE LET rest == TLSCipherSuites(Tail(names))
                  IN  IF rest.err # ErrNil THEN rest
                      ELSE [suites |-> <<(CHOOSE c \in hit : TRUE).id>> \o rest.suites,
                            err |-> ErrNil]

\* GetTLSVersion whose default case returns no error: an unrecognized label
\* resolves to version 0.
GetTLSVersion_DefaultZero(version) ==
    IF version = TLSVersion12 THEN [v |-> VersionTLS12, err |-> ErrNil]
    ELSE IF version = TLSVersion13 THEN [v |-> VersionTLS13, err |-> ErrNil]
    ELSE [v |-> 0, err |-> ErrNil]

\* GetTLSVersion: the tls.Version of a label, or an error.
GetTLSVersion(version) ==
    IF version = TLSVersion12 THEN [v |-> VersionTLS12, err |-> ErrNil]
    ELSE IF version = TLSVersion13 THEN [v |-> VersionTLS13, err |-> ErrNil]
    ELSE [v |-> 0, err |-> ErrInvalidTLSVersion]

\* The warnings of the insecure-cipher scan: one per listed name that is in
\* InsecureTLSCipherNames, in list order.
RECURSIVE InsecureWarnings(_)
InsecureWarnings(names) ==
    IF names = <<>> THEN <<>>
    ELSE (IF Head(names) \in InsecureTLSCipherNames
          THEN <<[msg |-> WarnInsecureCipher, cipher |-> Head(names)]>>
          ELSE <<>>) \o InsecureWarnings(Tail(names))

\* A mutator func(cfg *tls.Config): the field it assigns and the value.
Mutator(f, val) == [field |-> f, value |-> val]

\* Result of a failed build: return nil, err.
TLSFail(e, warns) == [funcs |-> <<>>, err |-> e, warnings |-> warns]

\* The range check with >= for >: equal versions are rejected too.
RangeInverted_Inclusive(minV, maxV) == maxV # 0 /\ minV >= maxV

\* The range check: tlsMaxVersion != 0 && tlsMinVersion > tlsMaxVersion.
RangeInverted(minV, maxV) == maxV # 0 /\ minV > maxV

\* The test with the min label forgotten: any range that ends at TLS 1.3
\* discards the cipher list.
CiphersIgnored_MaxOnly(options) ==
    /\ options.TLSMaxVersion = TLSVersion13
    /\ options.TLSCipherSuites # <<>>

\* The TLS 1.3-only test that discards the cipher list.
CiphersIgnored(options) ==
    /\ options.TLSMinVersion = TLSVersion13
    /\ options.TLSMaxVersion = TLSVersion13
    /\ options.TLSCipherSuites # <<>>

\* The cipher block with the error of the resolution dropped: the suites
\* resolved so far are installed.
CipherStage_SkipUnknown(base, ciphers, warns) ==
    LET tlsCipherSuites == Split(ciphers)
        res == TLSCipherSuites(tlsCipherSuites)
    IN  [funcs |-> Append(base, Mutator("CipherSuites", res.suites)),
         err |-> ErrNil,
         warnings |-> warns \o InsecureWarnings(tlsCipherSuites)]

\* The cipher block returning the list built so far with the error:
\* "return tlsOptions, err" for "return nil, err".
CipherStage_PartialOnError(base, ciphers, warns) ==
    LET tlsCipherSuites == Split(ciphers)
        res == TLSCipherSuites(tlsCipherSuites)
    IN  IF res.err # ErrNil
        THEN [funcs |-> base, err |-> res.err, warnings |-> warns]
        ELSE [funcs |-> Append(base, Mutator("CipherSuites", res.suites)),
              err |-> ErrNil,
              warnings |-> warns \o InsecureWarnings(tlsCipherSuites)]

\* The cipher block with the insecure-name scan returning an error at the
\* first match where the source only logs.
CipherStage_RejectInsecure(base, ciphers, warns) ==
    LET tlsCipherSuites == Split(ciphers)
        res == TLSCipherSuites(tlsCipherSuites)
        found == InsecureWarnings(tlsCipherSuites)
    IN  IF res.err # ErrNil THEN TLSFail(res.err, warns)
        ELSE IF found # <<>> THEN TLSFail(ErrUnknownCipherSuite, warns \o found)
        ELSE [funcs |-> Append(base, Mutator("CipherSuites", res.suites)),
              err |-> ErrNil,
              warnings |-> warns]

\* The cipher block, entered with a non-empty cipher string: split, resolve
\* (an unresolvable name returns nil, err), warn on insecure names, append
\* the cipher-suite mutator.
CipherStage(base, ciphers, warns) ==
    LET tlsCipherSuites == Split(ciphers)
        res == TLSCipherSuites(tlsCipherSuites)
    IN  IF res.err # ErrNil THEN TLSFail(res.err, warns)
        ELSE [funcs |-> Append(base, Mutator("CipherSuites", res.suites)),
              err |-> ErrNil,
              warnings |-> warns \o InsecureWarnings(tlsCipherSuites)]

\* The two appends with the max mutator assigning tlsMinVersion.
VersionMutators_MaxFromMin(minV, maxV) ==
    <<Mutator("MinVersion", minV), Mutator("MaxVersion", minV)>>

\* Both appends writing cfg.MinVersion.
VersionMutators_SameField(minV, maxV) ==
    <<Mutator("MinVersion", minV), Mutator("MinVersion", maxV)>>

\* The two appends that are always made: cfg.MinVersion = tlsMinVersion,
\* then cfg.MaxVersion = tlsMaxVersion.
VersionMutators(minV, maxV) ==
    <<Mutator("MinVersion", minV), Mutator("MaxVersion", maxV)>>

\* The transport configuration before any mutator has run on it.
ZeroTLSConfig == [MinVersion |-> 0, MaxVersion |-> 0, CipherSuites |-> <<>>]

\* Calling one mutator on cfg: the assignment in its body.
ApplyMutator(cfg, m) == [cfg EXCEPT ![m.field] = m.value]

\* The webhook server calling the mutators of a list on cfg, in list order.
RECURSIVE ApplyAll(_, _)
ApplyAll(funcs, cfg) ==
    IF funcs = <<>> THEN cfg
    ELSE ApplyAll(Tail(funcs), ApplyMutator(cfg, Head(funcs)))

\* GetTLSOptionOverrideFuncs(options): the mutator list, the error, and the
\* warnings written to setupLog on the way.
GetTLSOptionOverrideFuncs(options) ==
    LET min == GetTLSVersion(options.TLSMinVersion)
        max == GetTLSVersion(options.TLSMaxVersion)
    IN
    IF min.err # ErrNil THEN TLSFail(min.err, <<>>)
    ELSE IF max.err # ErrNil THEN TLSFail(max.err, <<>>)
    ELSE IF RangeInverted(min.v, max.v) THEN TLSFail(ErrTLSRangeInverted, <<>>)
    ELSE
    LET base == VersionMutators(min.v, max.v)
        ignore == CiphersIgnored(options)
        warn1 == IF ignore
                 THEN <<[msg |-> WarnCiphersIgnored, cipher |-> <<>>]>>
                 ELSE <<>>
        ciphers == IF ignore THEN <<>> ELSE options.TLSCipherSuites
    IN
    IF ciphers = <<>> THEN [funcs |-> base, err |-> ErrNil, warnings |-> warn1]
    ELSE CipherStage(base, ciphers, warn1)

\* ------------------------------------------------------------------- state

\* The reconcilers of setupReconcilers and the webhooks of setupWebhooks, in
\* the order of their registration calls.
ReconcilerOrder ==
    <<"Metal3Machine", "Metal3Cluster", "Metal3DataTemplate", "Metal3Data",
      "Metal3LabelSync", "Metal3MachineTemplate", "Metal3Remediation">>

WebhookOrder ==
    <<"Metal3Cluster", "Metal3Machine", "Metal3MachineTemplate",
      "Metal3DataTemplate", "Metal3Data", "Metal3DataClaim",
      "Metal3Remediation", "Metal3RemediationTemplate">>

ReconcilerKinds == {ReconcilerOrder[i] : i \in 1..Len(ReconcilerOrder)}
WebhookKinds == {WebhookOrder[i] : i \in 1..Len(WebhookOrder)}

\* The defaults of the --<kind>-concurrency flags.
DefaultConcurrency ==
    [k \in ReconcilerKinds |-> IF k = "Metal3Machine" THEN 1 ELSE 10]

\* The values a deployment overrides one concurrency flag with.
ConcurrencyValues == {0, 1, 2}

\* The flag settings of a run: the defaults, or the defaults with the flag of
\* one kind overridden.
ConcurrencyInputs ==
    {DefaultConcurrency} \cup
    {[DefaultConcurrency EXCEPT ![k] = c] : k \in ReconcilerKinds, c \in ConcurrencyValues}

\* All strings over CipherChars of at most n characters.
StringsUpTo(n) == UNION {[1..m -> CipherChars] : m \in 0..n}

\* The --tls-cipher-suites strings of the bootstrap runs: none, a preferred
\* name, an insecure name, an unknown name.
BootstrapCipherInputs == {<<>>, <<"A">>, <<"I">>, <<"X">>}

TLSOptionsOver(ciphers) ==
    [TLSMinVersion : VersionLabels, TLSMaxVersion : VersionLabels,
     TLSCipherSuites : ciphers]

VARIABLES
    pc,                               \* where main() is
    exitCode,                         \* -1 while the process lives, else its status
    tlsOptions,                       \* --tls-min-version, --tls-max-version, --tls-cipher-suites
    waitForMetal3Controller,          \* the readiness-gate switch
    enableBMHNameBasedPreallocation,  \* --enableBMHNameBasedPreallocation
    concurrencyFlags,                 \* --<kind>-concurrency, by kind
    tlsOptionOverrides,               \* the mutator list main holds
    tlsErr,                           \* err of GetTLSOptionOverrideFuncs
    setupLog,                         \* warnings written to setupLog
    mgr,                              \* the manager: TLSOpts, checks, controllers, webhooks
    ctx,                              \* the signal-bound context: "none", "active", "cancelled"
    baremetalPreallocation,           \* baremetal.EnableBMHNameBasedPreallocation
    gateTrace,                        \* discovery attempts and sleeps of waitForAPIs, in order
    reconcilerCalls,                  \* SetupWithManager calls made: kind and outcome
    webhookCalls,                     \* SetupWebhookWithManager calls made: kind and outcome
    steps,                            \* bootstrap steps begun, in order
    done,                             \* bootstrap steps that succeeded, in order
    inflight,                         \* reconcile invocations in flight, by kind
    myscheme                          \* the scheme registry: GVK and Go type of each kind

vars ==
    <<pc, exitCode, tlsOptions, waitForMetal3Controller,
      enableBMHNameBasedPreallocation, concurrencyFlags, tlsOptionOverrides,
      tlsErr, setupLog, mgr, ctx, baremetalPreallocation, gateTrace,
      reconcilerCalls, webhookCalls, steps, done, inflight, myscheme>>

\* The package-level variables that main() only reads: the parsed flags and
\* the scheme registry.
flags ==
    <<tlsOptions, waitForMetal3Controller, enableBMHNameBasedPreallocation,
      concurrencyFlags, myscheme>>

tlsState == <<tlsOptionOverrides, tlsErr, setupLog>>

registryCalls == <<reconcilerCalls, webhookCalls>>

\* The manager before ctrl.NewManager has returned.
NoManager ==
    [constructed |-> FALSE, TLSOpts |-> <<>>, readyz |-> FALSE, healthz |-> FALSE,
     controllers |-> <<>>, webhooks |-> <<>>, started |-> FALSE,
     tlsConfig |-> ZeroTLSConfig]

\* runtime.NewScheme(): no kind registered.
NewScheme == {}

\* The packages whose AddToScheme init() calls, in call order.
SchemeBuilders ==
    <<"scheme", "ipamv1", "caipamv1", "infrav1", "infrav1alpha5", "clusterv1",
      "bmov1alpha1">>

\* The types a package's AddToScheme registers, each as its
\* group/version/kind and the Go type it resolves to; one kind stands for
\* the kinds of the package.
GroupTypes(b) ==
    IF b = "scheme" THEN {[gvk |-> <<"", "v1", "Secret">>, type |-> "corev1.Secret"]}
    ELSE IF b = "ipamv1"
    THEN {[gvk |-> <<"ipam.metal3.io", "v1alpha1", "IPPool">>, type |-> "ipamv1.IPPool"]}
    ELSE IF b = "caipamv1"
    THEN {[gvk |-> <<"ipam.cluster.x-k8s.io", "v1alpha1", "IPAddressClaim">>,
           type |-> "caipamv1.IPAddressClaim"]}
    ELSE IF b = "infrav1"
    THEN {[gvk |-> <<"infrastructure.cluster.x-k8s.io", "v1beta1", "Metal3Machine">>,
           type |-> "infrav1.Metal3Machine"]}
    ELSE IF b = "infrav1alpha5"
    THEN {[gvk |-> <<"infrastructure.cluster.x-k8s.io", "v1alpha5", "Metal3Machine">>,
           type |-> "infrav1alpha5.Metal3Machine"]}
    ELSE IF b = "clusterv1"
    THEN {[gvk |-> <<"cluster.x-k8s.io", "v1beta1", "Cluster">>, type |-> "clusterv1.Cluster"]}
    ELSE {[gvk |-> <<"metal3.io", "v1alpha1", "BareMetalHost">>,
           type |-> "bmov1alpha1.BareMetalHost"]}

\* <pkg>.AddToScheme(s): the types of the package are added to s; a
\* group/version/kind that s already resolves to the same type is left as it
\* is, one that s resolves to another type is refused.
AddToScheme(s, b) ==
    IF \E t \in GroupTypes(b), q \in s : t.gvk = q.gvk /\ t.type # q.type
    THEN [scheme |-> s, err |-> TRUE]
    ELSE [scheme |-> s \cup GroupTypes(b), err |-> FALSE]

\* The body of init() run on registry s from its i-th call on: the calls in
\* order, every returned error discarded ("_ ="); errs counts them.
RECURSIVE PopulateFrom(_, _)
PopulateFrom(s, i) ==
    IF i > Len(SchemeBuilders) THEN [scheme |-> s, errs |-> 0]
    ELSE LET r == AddToScheme(s, SchemeBuilders[i])
             rest == PopulateFrom(r.scheme, i + 1)
         IN  [scheme |-> rest.scheme,
              errs |-> rest.errs + (IF r.err THEN 1 ELSE 0)]

\* init() run on registry s.
PopulateScheme(s) == PopulateFrom(s, 1)

\* Everything but the flags, as it is when main() is entered.
InitRest ==
    /\ exitCode = -1
    /\ myscheme = PopulateScheme(NewScheme).scheme
    /\ tlsOptionOverrides = <<>>
    /\ tlsErr = ErrNil
    /\ setupLog = <<>>
    /\ mgr = NoManager
    /\ ctx = "none"
    /\ baremetalPreallocation = FALSE
    /\ gateTrace = <<>>
    /\ reconcilerCalls = <<>>
    /\ webhookCalls = <<>>
    /\ inflight = [k \in ReconcilerKinds |-> 0]

\* main() after pflag.Parse().
Init ==
    /\ pc = "validate_logs"
    /\ steps = <<>>
    /\ done = <<>>
    /\ tlsOptions \in TLSOptionsOver(BootstrapCipherInputs)
    /\ waitForMetal3Controller \in BOOLEAN
    /\ enableBMHNameBasedPreallocation \in BOOLEAN
    /\ concurrencyFlags \in ConcurrencyInputs
    /\ InitRest

\* main() about to call GetTLSOptionOverrideFuncs, for every TLS flag setting
\* within the bounds; the other flags have their defaults.
InitTLS ==
    /\ pc = "tls_policy"
    /\ steps = <<"logs", "rest_config">>
    /\ done = <<"logs", "rest_config">>
    /\ tlsOptions \in TLSOptionsOver(StringsUpTo(MaxCipherLen))
    /\ waitForMetal3Controller = FALSE
    /\ enableBMHNameBasedPreallocation = FALSE
    /\ concurrencyFlags = DefaultConcurrency
    /\ InitRest

\* ------------------------------------------------------------------ main()

Alive == exitCode = -1

\* os.Exit(code)
Exit(code) == pc' = "exited" /\ exitCode' = code

\* A step that begins and succeeds within one action, and one that fails.
StepOK(s) == steps' = Append(steps, s) /\ done' = Append(done, s)
StepFailed(s) == steps' = Append(steps, s) /\ UNCHANGED done

\* The error branch without os.Exit: the error is logged and main goes on.
ExitOnError_NoExit(ok, s, next) ==
    IF ok THEN pc' = next /\ UNCHANGED exitCode /\ StepOK(s)
    ELSE pc' = next /\ UNCHANGED exitCode /\ StepFailed(s)

\* The error branch with os.Exit(0).
ExitOnError_Status0(ok, s, next) ==
    IF ok THEN pc' = next /\ UNCHANGED exitCode /\ StepOK(s)
    ELSE Exit(0) /\ StepFailed(s)

\* if err != nil { setupLog.Error(...); os.Exit(1) } after a step of main:
\* on success main goes on to next.
ExitOnError(ok, s, next) ==
    IF ok THEN pc' = next /\ UNCHANGED exitCode /\ StepOK(s)
    ELSE Exit(1) /\ StepFailed(s)

\* logsv1.ValidateAndApply(logOptions, nil); an error exits with status 1.
ValidateLogs ==
    /\ Alive /\ pc = "validate_logs"
    /\ \E ok \in BOOLEAN :
        ExitOnError(ok, "logs", "get_config")
    /\ UNCHANGED <<flags, tlsState, mgr, ctx, baremetalPreallocation, gateTrace,
                   registryCalls, inflight>>

\* restConfig := ctrl.GetConfigOrDie(): no usable kubeconfig exits with status 1.
GetConfig ==
    /\ Alive /\ pc = "get_config"
    /\ \E ok \in BOOLEAN :
        ExitOnError(ok, "rest_config", "tls_policy")
    /\ UNCHANGED <<flags, tlsState, mgr, ctx, baremetalPreallocation, gateTrace,
                   registryCalls, inflight>>

\* tlsOptionOverrides, err := GetTLSOptionOverrideFuncs(tlsOptions); an error
\* exits with status 1.
BuildTLSPolicy ==
    /\ Alive /\ pc = "tls_policy"
    /\ LET r == GetTLSOptionOverrideFuncs(tlsOptions)
       IN  /\ tlsOptionOverrides' = r.funcs
           /\ tlsErr' = r.err
           /\ setupLog' = setupLog \o r.warnings
           /\ ExitOnError(r.err = ErrNil, "tls_policy", "new_manager")
    /\ UNCHANGED <<flags, mgr, ctx, baremetalPreallocation, gateTrace,
                   registryCalls, inflight>>

\* ctrl.NewManager registering a type of its own in the scheme it is given
\* in Options.Scheme.
NewManager_WritesScheme ==
    /\ Alive /\ pc = "new_manager"
    /\ \E ok \in BOOLEAN :
        /\ mgr' = IF ok
                  THEN [mgr EXCEPT !.constructed = TRUE, !.TLSOpts = tlsOptionOverrides]
                  ELSE mgr
        /\ ExitOnError(ok, "new_manager", "gate_check")
    /\ myscheme' = myscheme \cup
           {[gvk |-> <<"coordination.k8s.io", "v1", "Lease">>, type |-> "coordinationv1.Lease"]}
    /\ UNCHANGED <<tlsOptions, waitForMetal3Controller, enableBMHNameBasedPreallocation,
                   concurrencyFlags, tlsState, ctx, baremetalPreallocation, gateTrace,
                   registryCalls, inflight>>

\* mgr, err := ctrl.NewManager(restConfig, ctrl.Options{..., TLSOpts:
\* tlsOptionOverrides}); an error exits with status 1.
NewManager ==
    /\ Alive /\ pc = "new_manager"
    /\ \E ok \in BOOLEAN :
        /\ mgr' = IF ok
                  THEN [mgr EXCEPT !.constructed = TRUE, !.TLSOpts = tlsOptionOverrides]
                  ELSE mgr
        /\ ExitOnError(ok, "new_manager", "gate_check")
    /\ UNCHANGED <<flags, tlsState, ctx, baremetalPreallocation, gateTrace,
                   registryCalls, inflight>>

\* ---------------------------------------------------------- readiness gate

GateEvent(e, secs) == [ev |-> e, secs |-> secs]

\* The discovery attempts of gateTrace that failed.
Failures(trace) == Len(SelectSeq(trace, LAMBDA e : e.ev = "fail"))

\* The gate entered whatever the switch says.
GateEnabled_Always == TRUE

\* The condition of "if waitForMetal3Controller { ... }".
GateEnabled == waitForMetal3Controller

\* main with ctrl.SetupSignalHandler() called ahead of the gate.
GateCheck_ContextFirst ==
    /\ Alive /\ pc = "gate_check"
    /\ ctx' = "active"
    /\ IF GateEnabled
       THEN pc' = "gate_config" /\ steps' = Append(steps, "readiness_gate")
       ELSE pc' = "signal_handler" /\ UNCHANGED steps
    /\ UNCHANGED <<exitCode, flags, tlsState, mgr, baremetalPreallocation,
                   gateTrace, registryCalls, done, inflight>>

\* if waitForMetal3Controller { ... }: the gate is entered only with the
\* switch set.
GateCheck ==
    /\ Alive /\ pc = "gate_check"
    /\ IF GateEnabled
       THEN pc' = "gate_config" /\ steps' = Append(steps, "readiness_gate")
       ELSE pc' = "signal_handler" /\ UNCHANGED steps
    /\ UNCHANGED <<exitCode, flags, tlsState, mgr, ctx, baremetalPreallocation,
                   gateTrace, registryCalls, done, inflight>>

\* The argument of waitForAPIs: ctrl.GetConfigOrDie().
GateConfig ==
    /\ Alive /\ pc = "gate_config"
    /\ \E ok \in BOOLEAN :
        IF ok THEN pc' = "gate_client" /\ UNCHANGED exitCode ELSE Exit(1)
    /\ UNCHANGED <<flags, tlsState, mgr, ctx, baremetalPreallocation, gateTrace,
                   registryCalls, steps, done, inflight>>

\* c, err := discovery.NewDiscoveryClientForConfig(cfg): an error is returned
\* to main, which exits with status 1.
GateClient ==
    /\ Alive /\ pc = "gate_client"
    /\ \E ok \in BOOLEAN :
        IF ok THEN pc' = "gate_attempt" /\ UNCHANGED exitCode ELSE Exit(1)
    /\ UNCHANGED <<flags, tlsState, mgr, ctx, baremetalPreallocation, gateTrace,
                   registryCalls, steps, done, inflight>>

\* The loop with "continue" on both branches: a successful attempt sleeps and
\* retries like a failed one, and waitForAPIs never returns.
AfterAttempt_NeverBreak(ok) ==
    pc' = "gate_sleep" /\ UNCHANGED <<done, exitCode>>

\* The loop without its sleep: a failed attempt is retried at once.
AfterAttempt_NoSleep(ok) ==
    IF ok
    THEN pc' = "signal_handler" /\ done' = Append(done, "readiness_gate")
         /\ UNCHANGED exitCode
    ELSE pc' = "gate_attempt" /\ UNCHANGED <<done, exitCode>>

\* The loop with a maximum attempt count: the second failure gives up.
AfterAttempt_MaxAttempts(ok) ==
    IF ok
    THEN pc' = "signal_handler" /\ done' = Append(done, "readiness_gate")
         /\ UNCHANGED exitCode
    ELSE IF Failures(gateTrace) >= 1
    THEN Exit(1) /\ UNCHANGED done
    ELSE pc' = "gate_sleep" /\ UNCHANGED <<done, exitCode>>

\* The loop returning the error of a failed attempt to main, which exits.
AfterAttempt_FailFast(ok) ==
    IF ok
    THEN pc' = "signal_handler" /\ done' = Append(done, "readiness_gate")
         /\ UNCHANGED exitCode
    ELSE Exit(1) /\ UNCHANGED done

\* What the loop does with the answer of discovery.ServerSupportsVersion: an
\* error goes on to the sleep, success breaks the loop and waitForAPIs
\* returns nil.
AfterAttempt(ok) ==
    IF ok
    THEN pc' = "signal_handler" /\ done' = Append(done, "readiness_gate")
         /\ UNCHANGED exitCode
    ELSE pc' = "gate_sleep" /\ UNCHANGED <<done, exitCode>>

\* err = discovery.ServerSupportsVersion(c, metal3GV)
GateAttempt ==
    /\ Alive /\ pc = "gate_attempt"
    /\ \E ok \in BOOLEAN :
        /\ ok \/ Failures(gateTrace) < MaxDiscoveryFailures
        /\ gateTrace' = Append(gateTrace, GateEvent(IF ok THEN "ok" ELSE "fail", 0))
        /\ AfterAttempt(ok)
    /\ UNCHANGED <<flags, tlsState, mgr, ctx, baremetalPreallocation,
                   registryCalls, steps, inflight>>

\* time.Sleep(time.Second * 10); continue
GateSleep ==
    /\ Alive /\ pc = "gate_sleep"
    /\ gateTrace' = Append(gateTrace, GateEvent("sleep", SleepSeconds))
    /\ pc' = "gate_attempt"
    /\ UNCHANGED <<exitCode, flags, tlsState, mgr, ctx, baremetalPreallocation,
                   registryCalls, steps, done, inflight>>

\* The longest gateTrace kept when the failures are not bounded: the events
\* of MaxDiscoveryFailures failed rounds and one more attempt.
TraceCap == 2 * MaxDiscoveryFailures + 1

\* gateTrace with event e recorded: appended while the trace is short of
\* TraceCap, written over the last event from then on.
RecordEvent(trace, e) ==
    IF Len(trace) < TraceCap THEN Append(trace, e)
    ELSE [trace EXCEPT ![Len(trace)] = e]

\* err = discovery.ServerSupportsVersion(c, metal3GV), with no bound on how
\* often it fails.
GateAttemptUnbounded ==
    /\ Alive /\ pc = "gate_attempt"
    /\ \E ok \in BOOLEAN :
        /\ gateTrace' = RecordEvent(gateTrace, GateEvent(IF ok THEN "ok" ELSE "fail", 0))
        /\ AfterAttempt(ok)
    /\ UNCHANGED <<flags, tlsState, mgr, ctx, baremetalPreallocation,
                   registryCalls, steps, inflight>>

\* time.Sleep(time.Second * 10); continue, in the unbounded loop.
GateSleepUnbounded ==
    /\ Alive /\ pc = "gate_sleep"
    /\ gateTrace' = RecordEvent(gateTrace, GateEvent("sleep", SleepSeconds))
    /\ pc' = "gate_attempt"
    /\ UNCHANGED <<exitCode, flags, tlsState, mgr, ctx, baremetalPreallocation,
                   registryCalls, steps, done, inflight>>

\* ----------------------------------------------------- context and toggles

\* ctx := ctrl.SetupSignalHandler()
SetupSignalHandler ==
    /\ Alive /\ pc = "signal_handler"
    /\ ctx' = "active"
    /\ pc' = "preallocation"
    /\ StepOK("signal_context")
    /\ UNCHANGED <<exitCode, flags, tlsState, mgr, baremetalPreallocation,
                   gateTrace, registryCalls, inflight>>

\* A termination signal cancels the context.
Signal ==
    /\ Alive /\ ctx = "active"
    /\ ctx' = "cancelled"
    /\ UNCHANGED <<pc, exitCode, flags, tlsState, mgr, baremetalPreallocation,
                   gateTrace, registryCalls, steps, done, inflight>>

\* if enableBMHNameBasedPreallocation { baremetal.Enable... = the flag }
Preallocation ==
    /\ Alive /\ pc = "preallocation"
    /\ baremetalPreallocation' =
         IF enableBMHNameBasedPreallocation
         THEN enableBMHNameBasedPreallocation ELSE baremetalPreallocation
    /\ pc' = "readyz"
    /\ StepOK("preallocation")
    /\ UNCHANGED <<exitCode, flags, tlsState, mgr, ctx, gateTrace, registryCalls,
                   inflight>>

\* setupChecks: mgr.AddReadyzCheck("webhook", ...); an error exits with 1.
AddReadyzCheck ==
    /\ Alive /\ pc = "readyz"
    /\ steps' = Append(steps, "health_checks")
    /\ \E ok \in BOOLEAN :
        IF ok
        THEN mgr' = [mgr EXCEPT !.readyz = TRUE] /\ pc' = "healthz" /\ UNCHANGED exitCode
        ELSE UNCHANGED mgr /\ Exit(1)
    /\ UNCHANGED <<flags, tlsState, ctx, baremetalPreallocation, gateTrace,
                   registryCalls, done, inflight>>

\* setupChecks: mgr.AddHealthzCheck("webhook", ...); an error exits with 1.
AddHealthzCheck ==
    /\ Alive /\ pc = "healthz"
    /\ \E ok \in BOOLEAN :
        IF ok
        THEN /\ mgr' = [mgr EXCEPT !.healthz = TRUE]
             /\ pc' = "reconcilers" /\ UNCHANGED exitCode
             /\ done' = Append(done, "health_checks")
        ELSE UNCHANGED <<mgr, done>> /\ Exit(1)
    /\ UNCHANGED <<flags, tlsState, ctx, baremetalPreallocation, gateTrace,
                   registryCalls, steps, inflight>>

\* ------------------------------------------------------------ registration

\* concurrency(c): controller.Options{MaxConcurrentReconciles: c}
concurrency(c) == [MaxConcurrentReconciles |-> c]

Call(kind, ok) == [kind |-> kind, ok |-> ok]

\* setupReconcilers without os.Exit: a failed registration is logged and the
\* next one is made.
AfterReconciler_BestEffort(i, ok) ==
    IF i = Len(ReconcilerOrder)
    THEN pc' = "webhooks" /\ UNCHANGED exitCode /\ done' = Append(done, "reconcilers")
    ELSE pc' = "reconcilers" /\ UNCHANGED <<exitCode, done>>

\* What setupReconcilers does when a SetupWithManager call returns: an error
\* exits with status 1, otherwise the next registration (or, after the last
\* one, setupWebhooks) follows.
AfterReconciler(i, ok) ==
    IF ~ok THEN Exit(1) /\ UNCHANGED done
    ELSE IF i = Len(ReconcilerOrder)
    THEN pc' = "webhooks" /\ UNCHANGED exitCode /\ done' = Append(done, "reconcilers")
    ELSE pc' = "reconcilers" /\ UNCHANGED <<exitCode, done>>

\* setupReconcilers with the flag of the Metal3DataTemplate block left in
\* the Metal3Data block that was copied from it.
FlagOf_CopyPaste(kind) ==
    IF kind = "Metal3Data" THEN concurrencyFlags["Metal3DataTemplate"]
    ELSE concurrencyFlags[kind]

\* The flag variable each block of setupReconcilers hands to concurrency():
\* metal3MachineConcurrency for Metal3Machine, metal3ClusterConcurrency for
\* Metal3Cluster, and so on, each kind its own.
FlagOf(kind) == concurrencyFlags[kind]

\* setupReconcilers: the i-th (&controllers.<Kind>Reconciler{...}).
\* SetupWithManager(ctx, mgr, concurrency(<the kind's flag>)).
SetupReconciler ==
    /\ Alive /\ pc = "reconcilers"
    /\ LET i == Len(reconcilerCalls) + 1
           kind == ReconcilerOrder[i]
       IN  /\ steps' = IF i = 1 THEN Append(steps, "reconcilers") ELSE steps
           /\ \E ok \in BOOLEAN :
               /\ reconcilerCalls' = Append(reconcilerCalls, Call(kind, ok))
               /\ mgr' = IF ok
                         THEN [mgr EXCEPT !.controllers =
                                 Append(@, [kind |-> kind,
                                            opts |-> concurrency(FlagOf(kind))])]
                         ELSE mgr
               /\ AfterReconciler(i, ok)
    /\ UNCHANGED <<flags, tlsState, ctx, baremetalPreallocation, gateTrace,
                   webhookCalls, inflight>>

\* setupWebhooks without os.Exit: a failed registration is logged and the
\* next one is made.
AfterWebhook_BestEffort(i, ok) ==
    IF i = Len(WebhookOrder)
    THEN pc' = "start" /\ UNCHANGED exitCode /\ done' = Append(done, "webhooks")
    ELSE pc' = "webhooks" /\ UNCHANGED <<exitCode, done>>

\* What setupWebhooks does when a SetupWebhookWithManager call returns.
AfterWebhook(i, ok) ==
    IF ~ok THEN Exit(1) /\ UNCHANGED done
    ELSE IF i = Len(WebhookOrder)
    THEN pc' = "start" /\ UNCHANGED exitCode /\ done' = Append(done, "webhooks")
    ELSE pc' = "webhooks" /\ UNCHANGED <<exitCode, done>>

\* setupWebhooks: the i-th (&infrav1.<Kind>{}).SetupWebhookWithManager(mgr).
SetupWebhook ==
    /\ Alive /\ pc = "webhooks"
    /\ LET i == Len(webhookCalls) + 1
           kind == WebhookOrder[i]
       IN  /\ steps' = IF i = 1 THEN Append(steps, "webhooks") ELSE steps
           /\ \E ok \in BOOLEAN :
               /\ webhookCalls' = Append(webhookCalls, Call(kind, ok))
               /\ mgr' = IF ok
                         THEN [mgr EXCEPT !.webhooks = Append(@, kind)]
                         ELSE mgr
               /\ AfterWebhook(i, ok)
    /\ UNCHANGED <<flags, tlsState, ctx, baremetalPreallocation, gateTrace,
                   reconcilerCalls, inflight>>

\* ---------------------------------------------------------------- run loop

\* Most reconcile invocations in flight over all kinds.
MaxLoad == 2

RECURSIVE SumOver(_, _)
SumOver(f, S) ==
    IF S = {} THEN 0
    ELSE LET k == CHOOSE x \in S : TRUE IN f[k] + SumOver(f, S \ {k})

\* The concurrency limit kind k was registered with; 0 when it was not.
Limit(k) ==
    LET regs == SelectSeq(mgr.controllers, LAMBDA c : c.kind = k)
    IN  IF regs = <<>> THEN 0 ELSE regs[1].opts.MaxConcurrentReconciles

\* mgr.Start(ctx) is entered; the webhook server comes up with the transport
\* configuration that the mutators of TLSOpts leave.
StartManager ==
    /\ Alive /\ pc = "start"
    /\ mgr' = [mgr EXCEPT !.started = TRUE,
                          !.tlsConfig = ApplyAll(mgr.TLSOpts, @)]
    /\ pc' = "running"
    /\ steps' = Append(steps, "run_loop")
    /\ UNCHANGED <<exitCode, flags, tlsState, ctx, baremetalPreallocation,
                   gateTrace, registryCalls, done, inflight>>

\* The runtime hands a reconcile request of kind k to a worker of that kind's
\* pool: only while the run loop runs and the context is not cancelled, and
\* only below the kind's limit.
Dispatch(k) ==
    /\ Alive /\ pc = "running" /\ mgr.started /\ ctx = "active"
    /\ inflight[k] < Limit(k)
    /\ SumOver(inflight, ReconcilerKinds) < MaxLoad
    /\ inflight' = [inflight EXCEPT ![k] = @ + 1]
    /\ UNCHANGED <<pc, exitCode, flags, tlsState, mgr, ctx, baremetalPreallocation,
                   gateTrace, registryCalls, steps, done>>

\* A reconcile invocation of kind k returns.
Complete(k) ==
    /\ Alive /\ pc = "running"
    /\ inflight[k] > 0
    /\ inflight' = [inflight EXCEPT ![k] = @ - 1]
    /\ UNCHANGED <<pc, exitCode, flags, tlsState, mgr, ctx, baremetalPreallocation,
                   gateTrace, registryCalls, steps, done>>

\* mgr.Start returns an error: "problem running manager", os.Exit(1).  The
\* exit of the process ends its workers: nothing is in flight afterwards.
ManagerFailed ==
    /\ Alive /\ pc = "running"
    /\ Exit(1)
    /\ inflight' = [k \in ReconcilerKinds |-> 0]
    /\ UNCHANGED <<flags, tlsState, mgr, ctx, baremetalPreallocation, gateTrace,
                   registryCalls, steps, done>>

\* mgr.Start returns nil once the context is cancelled and the in-flight
\* reconciles have drained; main returns and the process ends with status 0.
ManagerStopped ==
    /\ Alive /\ pc = "running"
    /\ ctx = "cancelled"
    /\ \A k \in ReconcilerKinds : inflight[k] = 0
    /\ Exit(0)
    /\ done' = Append(done, "run_loop")
    /\ UNCHANGED <<flags, tlsState, mgr, ctx, baremetalPreallocation, gateTrace,
                   registryCalls, steps, inflight>>

\* ---------------------------------------------------------- specifications

Next ==
    \/ ValidateLogs
    \/ GetConfig
    \/ BuildTLSPolicy
    \/ NewManager
    \/ GateCheck
    \/ GateConfig
    \/ GateClient
    \/ GateAttempt
    \/ GateSleep
    \/ SetupSignalHandler
    \/ Signal
    \/ Preallocation
    \/ AddReadyzCheck
    \/ AddHealthzCheck
    \/ SetupReconciler
    \/ SetupWebhook
    \/ StartManager
    \/ \E k \in ReconcilerKinds : Dispatch(k)
    \/ \E k \in ReconcilerKinds : Complete(k)
    \/ ManagerFailed
    \/ ManagerStopped

\* The whole bootstrap, from main() to the exit of the process.
Spec == Init /\ [][Next]_vars

\* main() entered with the concurrency flags at their defaults.
InitLive ==
    /\ pc = "validate_logs"
    /\ steps = <<>>
    /\ done = <<>>
    /\ tlsOptions \in TLSOptionsOver(BootstrapCipherInputs)
    /\ waitForMetal3Controller \in BOOLEAN
    /\ enableBMHNameBasedPreallocation \in BOOLEAN
    /\ concurrencyFlags = DefaultConcurrency
    /\ InitRest

\* The steps of the main goroutine up to and including its entry into
\* mgr.Start, discovery failing any number of times.
MainStep ==
    \/ ValidateLogs
    \/ GetConfig
    \/ BuildTLSPolicy
    \/ NewManager
    \/ GateCheck
    \/ GateConfig
    \/ GateClient
    \/ GateAttemptUnbounded
    \/ GateSleepUnbounded
    \/ SetupSignalHandler
    \/ Preallocation
    \/ AddReadyzCheck
    \/ AddHealthzCheck
    \/ SetupReconciler
    \/ SetupWebhook
    \/ StartManager

\* The steps of the environment and of the run loop.
RunStep ==
    \/ Signal
    \/ \E k \in ReconcilerKinds : Dispatch(k)
    \/ \E k \in ReconcilerKinds : Complete(k)
    \/ ManagerFailed
    \/ ManagerStopped

NextLive == MainStep \/ RunStep

\* The bootstrap with the main goroutine scheduled fairly: every call it
\* makes returns and time.Sleep ends, so a step main can take is taken.
\* Nothing is assumed of signals or of the run loop.
SpecLive == InitLive /\ [][NextLive]_vars /\ WF_vars(MainStep)

\* The TLS policy builder alone, applied to every flag setting in the bounds.
NextTLS == BuildTLSPolicy

SpecTLS == InitTLS /\ [][NextTLS]_vars

\* ------------------------------------------------------------- properties

SupportedLabels == {"TLS12", "TLS13"}

\* GetTLSOptionOverrideFuncs has been called and has returned.
TLSBuilt == \E i \in DOMAIN steps : steps[i] = "tls_policy"

\* The result of the builder, as main sees it.
TLSSucceeded == tlsErr = ErrNil /\ Len(tlsOptionOverrides) >= 2
TLSFailedWith(e) == tlsErr = e /\ exitCode = 1

\* The names of the cipher list of the flags: none for the empty string.
CipherNames ==
    IF tlsOptions.TLSCipherSuites = <<>> THEN <<>>
    ELSE Split(tlsOptions.TLSCipherSuites)

KnownCipherNames == {c.name : c \in CipherRegistry}

\* The positions of the cipher list that hold a name outside the registry.
UnknownPositions == {i \in DOMAIN CipherNames : CipherNames[i] \notin KnownCipherNames}

\* C1: with both labels among TLS12 and TLS13 and no cipher list, the builder
\* succeeds exactly when the resolved min version is at most the resolved
\* max version: (TLS13, TLS12) fails with the range-inverted error, the
\* three other pairs succeed.
C1_RangeCheck ==
    (/\ TLSBuilt
     /\ tlsOptions.TLSMinVersion \in SupportedLabels
     /\ tlsOptions.TLSMaxVersion \in SupportedLabels
     /\ tlsOptions.TLSCipherSuites = <<>>)
    =>
    /\ TLSSucceeded <=> (GetTLSVersion(tlsOptions.TLSMinVersion).v
                          <= GetTLSVersion(tlsOptions.TLSMaxVersion).v)
    /\ IF tlsOptions.TLSMinVersion = "TLS13" /\ tlsOptions.TLSMaxVersion = "TLS12"
       THEN TLSFailedWith(ErrTLSRangeInverted) /\ tlsOptionOverrides = <<>>
       ELSE TLSSucceeded /\ exitCode = -1

C1_Witness ==
    /\ TLSBuilt
    /\ tlsOptions.TLSMinVersion = "TLS13" /\ tlsOptions.TLSMaxVersion = "TLS12"
    /\ tlsOptions.TLSCipherSuites = <<>>
    /\ tlsErr = ErrTLSRangeInverted

\* C9: a min or max label outside {TLS12, TLS13} makes the builder fail with
\* the invalid-TLS-version error and return no mutators, whatever the other
\* label and the cipher list are.
C9_InvalidLabel ==
    (/\ TLSBuilt
     /\ \/ tlsOptions.TLSMinVersion \notin SupportedLabels
        \/ tlsOptions.TLSMaxVersion \notin SupportedLabels)
    =>
    /\ TLSFailedWith(ErrInvalidTLSVersion)
    /\ tlsOptionOverrides = <<>>

C9_Witness ==
    /\ TLSBuilt
    /\ tlsOptions.TLSMinVersion = "TLS13" /\ tlsOptions.TLSMaxVersion = "TLS11"
    /\ tlsOptions.TLSCipherSuites = <<"A", ",", "I">>
    /\ tlsErr = ErrInvalidTLSVersion /\ tlsOptionOverrides = <<>>

\* The labels are supported and the resolved range is not inverted.
ValidRange ==
    /\ tlsOptions.TLSMinVersion \in SupportedLabels
    /\ tlsOptions.TLSMaxVersion \in SupportedLabels
    /\ ~(tlsOptions.TLSMinVersion = "TLS13" /\ tlsOptions.TLSMaxVersion = "TLS12")

TLS13Only == tlsOptions.TLSMinVersion = "TLS13" /\ tlsOptions.TLSMaxVersion = "TLS13"

\* C10 as stated: with supported labels, min <= max, and a cipher list that
\* holds a name outside the registry, the builder fails with the
\* unknown-cipher-suite error, for every such version pair.
C10_Original ==
    (TLSBuilt /\ ValidRange /\ UnknownPositions # {})
    => TLSFailedWith(ErrUnknownCipherSuite)

\* C10 amended: with supported labels, min <= max, and a cipher list that
\* holds a name outside the registry at any position, the builder fails with
\* the unknown-cipher-suite error and returns no mutators for every version
\* pair but (TLS13, TLS13); for (TLS13, TLS13) the list is discarded unread
\* and the builder succeeds with the two version mutators.
C10_UnknownCipher ==
    (TLSBuilt /\ ValidRange /\ UnknownPositions # {})
    =>
    IF TLS13Only
    THEN tlsErr = ErrNil /\ Len(tlsOptionOverrides) = 2 /\ exitCode = -1
    ELSE TLSFailedWith(ErrUnknownCipherSuite) /\ tlsOptionOverrides = <<>>

C10_Witness ==
    /\ TLSBuilt
    /\ tlsOptions.TLSMinVersion = "TLS12" /\ tlsOptions.TLSMaxVersion = "TLS13"
    /\ tlsOptions.TLSCipherSuites = <<"A", ",", "X">>
    /\ UnknownPositions = {2}
    /\ tlsErr = ErrUnknownCipherSuite

\* A registry is fail-fast: a failed call is the last call made, and the
\* process has exited with status 1.
FailFast(calls) ==
    \A k \in DOMAIN calls :
        ~calls[k].ok => (k = Len(calls) /\ pc = "exited" /\ exitCode = 1)

\* C2: in setupReconcilers and in setupWebhooks, when the k-th registration
\* call returns an error the process exits with status 1 and no later
\* registration of that registry is attempted, for every position k.
C2_FailFast == FailFast(reconcilerCalls) /\ FailFast(webhookCalls)

C2_Witness ==
    /\ Len(reconcilerCalls) = 4
    /\ ~reconcilerCalls[4].ok
    /\ \A k \in 1..3 : reconcilerCalls[k].ok
    /\ exitCode = 1

SevenReconcilers ==
    {"Metal3Machine", "Metal3Cluster", "Metal3DataTemplate", "Metal3Data",
     "Metal3LabelSync", "Metal3MachineTemplate", "Metal3Remediation"}

EightWebhooks ==
    {"Metal3Cluster", "Metal3Machine", "Metal3MachineTemplate",
     "Metal3DataTemplate", "Metal3Data", "Metal3DataClaim", "Metal3Remediation",
     "Metal3RemediationTemplate"}

\* How often kind k was registered successfully.
TimesRegistered(calls, k) ==
    Cardinality({i \in DOMAIN calls : calls[i].kind = k /\ calls[i].ok})

AnyRegistrationFailed ==
    \/ \E i \in DOMAIN reconcilerCalls : ~reconcilerCalls[i].ok
    \/ \E i \in DOMAIN webhookCalls : ~webhookCalls[i].ok

\* C3: whenever mgr.Start has been entered, each of the 7 reconciler kinds
\* and each of the 8 webhook kinds has been registered successfully exactly
\* once; when a registration has failed the run loop is not entered and no
\* reconcile invocation is dispatched.
C3_AllOrNone ==
    /\ mgr.started =>
        /\ \A k \in SevenReconcilers :
            /\ TimesRegistered(reconcilerCalls, k) = 1
            /\ Cardinality({i \in DOMAIN mgr.controllers : mgr.controllers[i].kind = k}) = 1
        /\ Len(mgr.controllers) = 7
        /\ \A k \in EightWebhooks :
            /\ TimesRegistered(webhookCalls, k) = 1
            /\ Cardinality({i \in DOMAIN mgr.webhooks : mgr.webhooks[i] = k}) = 1
        /\ Len(mgr.webhooks) = 8
    /\ AnyRegistrationFailed =>
        /\ ~mgr.started
        /\ pc # "running"
        /\ \A k \in ReconcilerKinds : inflight[k] = 0
    /\ \A k \in ReconcilerKinds : inflight[k] > 0 => mgr.started

C3_Witness ==
    /\ mgr.started /\ pc = "running"
    /\ inflight["Metal3Cluster"] = 1 /\ inflight["Metal3Data"] = 1

\* The bootstrap steps of main in their order, the readiness gate present
\* when the switch is set.
BootstrapOrder ==
    <<"tls_policy", "new_manager">> \o
    (IF waitForMetal3Controller THEN <<"readiness_gate">> ELSE <<>>) \o
    <<"signal_context", "preallocation", "health_checks", "reconcilers",
      "webhooks", "run_loop">>

IsPrefix(a, b) == Len(a) <= Len(b) /\ \A i \in DOMAIN a : a[i] = b[i]

\* C4: the bootstrap steps begin in the order TLS policy, manager
\* construction, optional readiness gate, signal context, preallocation
\* toggle, health checks, reconcilers, webhooks, run loop; a step begins only
\* after every earlier step has succeeded, and at most one step is in
\* progress.
C4_Sequential ==
    /\ IsPrefix(SelectSeq(steps, LAMBDA x : x \notin {"logs", "rest_config"}),
                BootstrapOrder)
    /\ IsPrefix(done, steps)
    /\ Len(steps) - Len(done) <= 1

C4_Witness ==
    /\ waitForMetal3Controller
    /\ pc = "running"
    /\ Len(steps) = 11
    /\ Len(done) = 10

\* C5: the process ends with status 0 only after the run loop was entered
\* and returned without error under a cancelled context; a process that
\* exited with a step that did not succeed (logging, TLS policy, manager
\* construction, the discovery client of the gate, a registration, the run
\* loop) has status 1.
C5_ExitStatus ==
    /\ exitCode \in {-1, 0, 1}
    /\ (pc = "exited") <=> (exitCode # -1)
    /\ exitCode = 0 =>
        /\ mgr.started
        /\ ctx = "cancelled"
        /\ steps = done
        /\ done[Len(done)] = "run_loop"
        /\ tlsErr = ErrNil
        /\ ~AnyRegistrationFailed
    /\ (pc = "exited" /\ steps # done) => exitCode = 1
    /\ (tlsErr # ErrNil \/ AnyRegistrationFailed) => exitCode = 1

C5_Witness ==
    /\ exitCode = 0
    /\ mgr.started
    /\ ctx = "cancelled"

\* waitForAPIs has returned nil.
GateReturned == \E i \in DOMAIN done : done[i] = "readiness_gate"

Attempts(trace) == Len(SelectSeq(trace, LAMBDA e : e.ev \in {"ok", "fail"}))
Sleeps(trace) == Len(SelectSeq(trace, LAMBDA e : e.ev = "sleep"))

\* C6: when discovery fails n times and then succeeds, waitForAPIs returns
\* after exactly n+1 attempts, with one 10-second sleep after each failed
\* attempt and before the next attempt, and no sleep after the successful
\* one.
C6_GateAttempts ==
    GateReturned =>
        LET n == Failures(gateTrace)
        IN  /\ Attempts(gateTrace) = n + 1
            /\ Sleeps(gateTrace) = n
            /\ Len(gateTrace) = 2 * n + 1
            /\ \A i \in 1..n :
                /\ gateTrace[2 * i - 1].ev = "fail"
                /\ gateTrace[2 * i] = [ev |-> "sleep", secs |-> 10]
            /\ gateTrace[2 * n + 1].ev = "ok"

C6_Witness ==
    /\ GateReturned
    /\ Failures(gateTrace) = 2
    /\ Attempts(gateTrace) = 3
    /\ Sleeps(gateTrace) = 2

GateLoop == {"gate_attempt", "gate_sleep"}

\* What a step taken inside the retry loop of the gate may do.
GateLoopStep ==
    pc \in GateLoop =>
        /\ exitCode' = exitCode
        /\ \/ pc' \in GateLoop
           \/ pc' = "signal_handler" /\ gateTrace'[Len(gateTrace')].ev = "ok"
        /\ (Len(gateTrace') > 0 /\ gateTrace'[Len(gateTrace')].ev = "fail")
             => pc' = "gate_sleep"
        /\ (pc = "gate_sleep") => pc' = "gate_attempt"

\* C7: a step taken inside the retry loop of the gate never exits the
\* process; it stays in the loop, a failed attempt going on to the sleep
\* and the next attempt however many failures came before, or leaves the
\* loop after a discovery attempt that succeeded.
C7_GateRetriesForever == [][GateLoopStep]_vars

C7_Witness ==
    /\ pc = "gate_attempt"
    /\ exitCode = -1
    /\ Failures(gateTrace) = MaxDiscoveryFailures
    /\ Attempts(gateTrace) = MaxDiscoveryFailures

\* C8: with the readiness switch off, no discovery attempt is made and main
\* is never inside the gate: bootstrap goes from manager construction to the
\* signal context and on to the run loop.
C8_GateOptIn ==
    ~waitForMetal3Controller =>
        /\ gateTrace = <<>>
        /\ pc \notin {"gate_config", "gate_client", "gate_attempt", "gate_sleep"}
        /\ \A i \in DOMAIN steps : steps[i] # "readiness_gate"

C8_Witness ==
    /\ ~waitForMetal3Controller
    /\ pc = "running"
    /\ mgr.started
    /\ gateTrace = <<>>

\* The warning msg is in setupLog.
Warned(msg) == \E i \in DOMAIN setupLog : setupLog[i].msg = msg

\* The mutator list holds a mutator of field f.
HasMutator(f) == \E i \in DOMAIN tlsOptionOverrides : tlsOptionOverrides[i].field = f

\* C11: with min = max = TLS13 and a non-empty cipher list the builder
\* succeeds, records the ciphers-ignored warning and returns exactly the
\* min-version and max-version mutators; for every other valid version pair
\* a non-empty cipher list whose names all resolve yields a cipher-suite
\* mutator.
C11_TLS13IgnoresCiphers ==
    (TLSBuilt /\ ValidRange /\ tlsOptions.TLSCipherSuites # <<>>)
    =>
    IF TLS13Only
    THEN /\ tlsErr = ErrNil /\ exitCode = -1
         /\ Warned(WarnCiphersIgnored)
         /\ tlsOptionOverrides = <<[field |-> "MinVersion", value |-> 772],
                                   [field |-> "MaxVersion", value |-> 772]>>
         /\ ~HasMutator("CipherSuites")
    ELSE UnknownPositions = {} =>
         /\ tlsErr = ErrNil /\ exitCode = -1
         /\ Len(tlsOptionOverrides) = 3
         /\ tlsOptionOverrides[3].field = "CipherSuites"
         /\ ~Warned(WarnCiphersIgnored)

C11_Witness ==
    /\ TLSBuilt /\ TLS13Only
    /\ tlsOptions.TLSCipherSuites = <<"A", ",", "I">>
    /\ tlsErr = ErrNil
    /\ Len(tlsOptionOverrides) = 2
    /\ Warned(WarnCiphersIgnored)

\* The tls.Version a supported label stands for.
VersionOfLabel(l) == IF l = "TLS12" THEN 771 ELSE 772

\* C12: on success the builder returns the mutators in the order
\* [set-min-version, set-max-version, optionally set-cipher-suites], 2 or 3
\* of them, and building applies none: the transport configuration is
\* untouched until the list has been handed to the manager and the webhook
\* server runs it; run in order, the list sets MinVersion and MaxVersion to
\* the resolved values of the two labels.
C12_OrderedDeferred ==
    /\ (TLSBuilt /\ tlsErr = ErrNil) =>
        /\ Len(tlsOptionOverrides) \in {2, 3}
        /\ tlsOptionOverrides[1] =
             [field |-> "MinVersion", value |-> VersionOfLabel(tlsOptions.TLSMinVersion)]
        /\ tlsOptionOverrides[2] =
             [field |-> "MaxVersion", value |-> VersionOfLabel(tlsOptions.TLSMaxVersion)]
        /\ Len(tlsOptionOverrides) = 3 => tlsOptionOverrides[3].field = "CipherSuites"
        /\ LET cfg == ApplyAll(tlsOptionOverrides, ZeroTLSConfig)
           IN  /\ cfg.MinVersion = VersionOfLabel(tlsOptions.TLSMinVersion)
               /\ cfg.MaxVersion = VersionOfLabel(tlsOptions.TLSMaxVersion)
    /\ ~mgr.constructed => (mgr.TLSOpts = <<>> /\ mgr.tlsConfig = ZeroTLSConfig)
    /\ ~mgr.started => mgr.tlsConfig = ZeroTLSConfig
    /\ mgr.constructed => mgr.TLSOpts = tlsOptionOverrides
    /\ mgr.started =>
        /\ mgr.tlsConfig.MinVersion = VersionOfLabel(tlsOptions.TLSMinVersion)
        /\ mgr.tlsConfig.MaxVersion = VersionOfLabel(tlsOptions.TLSMaxVersion)

C12_Witness ==
    /\ mgr.started
    /\ tlsOptions.TLSMinVersion = "TLS12" /\ tlsOptions.TLSMaxVersion = "TLS13"
    /\ Len(tlsOptionOverrides) = 3
    /\ mgr.tlsConfig = [MinVersion |-> 771, MaxVersion |-> 772, CipherSuites |-> <<2>>]

\* C13: a max version left unspecified (the empty label) is no upper bound:
\* for every supported min label it does not trigger the range-inverted
\* failure and the builder accepts the range.
C13_UnspecifiedMaxAccepted ==
    (/\ TLSBuilt
     /\ tlsOptions.TLSMinVersion \in SupportedLabels
     /\ tlsOptions.TLSMaxVersion = "")
    =>
    /\ tlsErr # ErrTLSRangeInverted
    /\ tlsErr = ErrNil
    /\ exitCode = -1

\* Step 5 has begun and has not succeeded: main is in the gate, or the
\* process ended there.
InGateStep ==
    /\ steps # <<>>
    /\ steps[Len(steps)] = "readiness_gate"
    /\ ~GateReturned

\* C14 as stated: with the switch set, the process never exits from within
\* step 5.
C14_Original == InGateStep => exitCode = -1

\* C14 amended: with the switch set, once the first discovery attempt has
\* been made the gate has no abort path: main is still in the retry loop
\* until a discovery succeeds.  Within step 5 the process exits only before
\* the first attempt, with status 1, when the rest config or the discovery
\* client cannot be built.
C14_GateAbortsOnlyBeforeLoop ==
    InGateStep =>
        /\ waitForMetal3Controller
        /\ gateTrace # <<>> => (exitCode = -1 /\ pc \in GateLoop)
        /\ pc = "exited" => (exitCode = 1 /\ gateTrace = <<>>)
        /\ pc \in {"gate_config", "gate_client", "gate_attempt", "gate_sleep", "exited"}

C14_Witness ==
    /\ InGateStep
    /\ pc = "exited" /\ exitCode = 1
    /\ gateTrace = <<>>

\* The places of main in program order.
PcOrder ==
    <<"validate_logs", "get_config", "tls_policy", "new_manager", "gate_check",
      "gate_config", "gate_client", "gate_attempt", "gate_sleep",
      "signal_handler", "preallocation", "readyz", "healthz", "reconcilers",
      "webhooks", "start", "running", "exited">>

Rank(p) == CHOOSE i \in DOMAIN PcOrder : PcOrder[i] = p

GatePlaces == {"gate_config", "gate_client", "gate_attempt", "gate_sleep"}

RegistrationsMade == Len(reconcilerCalls) + Len(webhookCalls)

\* A step taken before the run loop moves main forward, or makes the next
\* registration call, or is a signal arriving; the one step back is the
\* retry of the gate, taken with no context in existence.
BootstrapStep ==
    pc \notin {"running", "exited"} =>
        \/ Rank(pc') > Rank(pc)
        \/ pc' = pc /\ RegistrationsMade' > RegistrationsMade
        \/ pc' = pc /\ ctx = "active" /\ ctx' = "cancelled"
        \/ pc = "gate_sleep" /\ pc' = "gate_attempt" /\ ctx = "none" /\ ctx' = "none"

\* C15: the signal-bound context is created only after the gate has
\* returned: while main is in the gate, attempting or sleeping, no context
\* exists that could be cancelled or observed; and the retry of the gate is
\* the only step of the bootstrap that goes back, so the gate is the only
\* bootstrap operation that can go on forever.
C15_GateIgnoresContext ==
    /\ [](pc \in GatePlaces => ctx = "none")
    /\ [](ctx # "none" => (GateReturned \/ ~waitForMetal3Controller))
    /\ [][BootstrapStep]_vars

C15_Witness ==
    /\ pc = "gate_sleep"
    /\ Failures(gateTrace) = 2
    /\ ctx = "none"
    /\ exitCode = -1

\* strings.Join(names, ","): the inverse of Split.
RECURSIVE Join(_)
Join(names) ==
    IF names = <<>> THEN <<>>
    ELSE IF Len(names) = 1 THEN names[1]
    ELSE names[1] \o <<",">> \o Join(Tail(names))

\* The flags with every known-insecure cipher name replaced by the preferred
\* one: the same request, with nothing to warn about in the list.
WithSecureCiphers ==
    [tlsOptions EXCEPT !.TLSCipherSuites =
        Join([i \in DOMAIN CipherNames |->
                 IF CipherNames[i] \in InsecureTLSCipherNames
                 THEN <<"A">> ELSE CipherNames[i]])]

\* The flags with no cipher list at all.
WithNoCiphers == [tlsOptions EXCEPT !.TLSCipherSuites = <<>>]

\* The positions of the cipher list that hold a known-insecure name.
InsecurePositions ==
    {i \in DOMAIN CipherNames : CipherNames[i] \in InsecureTLSCipherNames}

\* C16: warnings never abort. A run that logged a warning has succeeded;
\* every listed name that resolves and is known-insecure is warned about by
\* name and the cipher-suite mutator is still returned; the ciphers-ignored
\* warning of a TLS13-only range comes with the result of a run with no
\* cipher list; and the error of the builder is the error of the same
\* request with the insecure names replaced by a secure one.
C16_WarningsNeverAbort ==
    TLSBuilt =>
        /\ setupLog # <<>> => (tlsErr = ErrNil /\ exitCode = -1)
        /\ (ValidRange /\ ~TLS13Only /\ CipherNames # <<>> /\ UnknownPositions = {}) =>
              /\ tlsErr = ErrNil
              /\ HasMutator("CipherSuites")
              /\ \A i \in InsecurePositions :
                    \E j \in DOMAIN setupLog :
                        /\ setupLog[j].msg = WarnInsecureCipher
                        /\ setupLog[j].cipher = CipherNames[i]
        /\ Warned(WarnCiphersIgnored) =>
              /\ tlsErr = GetTLSOptionOverrideFuncs(WithNoCiphers).err
              /\ tlsOptionOverrides = GetTLSOptionOverrideFuncs(WithNoCiphers).funcs
        /\ tlsErr = GetTLSOptionOverrideFuncs(WithSecureCiphers).err
        /\ Len(tlsOptionOverrides) = Len(GetTLSOptionOverrideFuncs(WithSecureCiphers).funcs)

C16_Witness ==
    /\ TLSBuilt
    /\ tlsOptions.TLSMinVersion = "TLS12" /\ tlsOptions.TLSMaxVersion = "TLS13"
    /\ tlsOptions.TLSCipherSuites = <<"A", ",", "I">>
    /\ Warned(WarnInsecureCipher)
    /\ tlsErr = ErrNil /\ exitCode = -1
    /\ Len(tlsOptionOverrides) = 3
    /\ tlsOptionOverrides[3] = [field |-> "CipherSuites", value |-> <<1, 2>>]

\* C17 as stated: every reconciler registered by setupReconcilers carries a
\* concurrency limit of at least 1, whatever the concurrency flags are.
C17_LimitAtLeastOne ==
    \A i \in DOMAIN mgr.controllers :
        mgr.controllers[i].opts.MaxConcurrentReconciles >= 1

\* The kinds registered so far.
RegisteredKinds == {mgr.controllers[i].kind : i \in DOMAIN mgr.controllers}

\* C18: each kind is registered with the value of its own concurrency flag,
\* unclamped, so a flag that differs from its default changes the limit of
\* that kind alone; once every reconciler is registered the limits are the
\* seven flags; and the invocations of a kind in flight never exceed that
\* kind's limit, whatever is in flight for the other kinds.
C18_LimitsPerKind ==
    /\ \A i \in DOMAIN mgr.controllers :
          mgr.controllers[i].opts.MaxConcurrentReconciles
              = concurrencyFlags[mgr.controllers[i].kind]
    /\ \A k \in RegisteredKinds :
          /\ Limit(k) = concurrencyFlags[k]
          /\ concurrencyFlags[k] = DefaultConcurrency[k] =>
                Limit(k) = DefaultConcurrency[k]
    /\ pc = "running" => RegisteredKinds = ReconcilerKinds
    /\ \A k \in ReconcilerKinds :
          /\ inflight[k] <= Limit(k)
          /\ inflight[k] > 0 => k \in RegisteredKinds

C18_Witness ==
    /\ pc = "running" /\ mgr.started
    /\ concurrencyFlags["Metal3Machine"] = 2
    /\ Limit("Metal3Machine") = 2
    /\ inflight["Metal3Machine"] = 2
    /\ Limit("Metal3Cluster") = 10

\* The orders a list of n mutators can be applied in.
Orders(n) == {p \in [1..n -> 1..n] : \A i, j \in 1..n : p[i] = p[j] => i = j}

\* The mutator list taken in the order p.
Reordered(funcs, p) == [i \in DOMAIN funcs |-> funcs[p[i]]]

\* Transport configurations the list may be applied to: the zero value, and
\* one with every field already set.
SampleTLSConfigs ==
    {ZeroTLSConfig,
     [MinVersion |-> VersionTLS13, MaxVersion |-> VersionTLS12, CipherSuites |-> <<2>>]}

\* C19: in a list the builder returned, no two mutators write the same field
\* and every field written is one of MinVersion, MaxVersion, CipherSuites;
\* so the list leaves the same transport configuration in every application
\* order, and applied twice it leaves what it leaves applied once.
C19_FieldsSetOnce ==
    (TLSBuilt /\ tlsErr = ErrNil) =>
        /\ \A i, j \in DOMAIN tlsOptionOverrides :
              tlsOptionOverrides[i].field = tlsOptionOverrides[j].field => i = j
        /\ \A i \in DOMAIN tlsOptionOverrides :
              tlsOptionOverrides[i].field \in {"MinVersion", "MaxVersion", "CipherSuites"}
        /\ \A cfg \in SampleTLSConfigs :
              /\ \A p \in Orders(Len(tlsOptionOverrides)) :
                    ApplyAll(Reordered(tlsOptionOverrides, p), cfg)
                        = ApplyAll(tlsOptionOverrides, cfg)
              /\ ApplyAll(tlsOptionOverrides \o tlsOptionOverrides, cfg)
                    = ApplyAll(tlsOptionOverrides, cfg)
              /\ ApplyAll(tlsOptionOverrides, ApplyAll(tlsOptionOverrides, cfg))
                    = ApplyAll(tlsOptionOverrides, cfg)

C19_Witness ==
    /\ TLSBuilt /\ tlsErr = ErrNil
    /\ tlsOptions.TLSMinVersion = "TLS12" /\ tlsOptions.TLSMaxVersion = "TLS13"
    /\ tlsOptions.TLSCipherSuites = <<"I", ",", "A">>
    /\ Len(tlsOptionOverrides) = 3
    /\ ApplyAll(tlsOptionOverrides, ZeroTLSConfig)
          = [MinVersion |-> VersionTLS12, MaxVersion |-> VersionTLS13,
             CipherSuites |-> <<2, 1>>]

\* The group/version/kinds a registry resolves.
ResolvableKinds(s) == {t.gvk : t \in s}

TLSErrors == {ErrInvalidTLSVersion, ErrTLSRangeInverted, ErrUnknownCipherSuite}

\* C21: the builder is all-or-nothing. When it has failed, with any of its
\* three errors, the list main holds is empty, the process has exited with
\* status 1 and no manager was constructed; when it has succeeded the list
\* is complete, the min and max mutators first; and a manager that exists
\* was constructed with the complete list of a successful build.
C21_AllOrNothing ==
    /\ GetTLSOptionOverrideFuncs(tlsOptions).err # ErrNil =>
          GetTLSOptionOverrideFuncs(tlsOptions).funcs = <<>>
    /\ (TLSBuilt /\ tlsErr # ErrNil) =>
          /\ tlsErr \in TLSErrors
          /\ tlsOptionOverrides = <<>>
          /\ pc = "exited" /\ exitCode = 1
          /\ ~mgr.constructed /\ mgr.TLSOpts = <<>>
    /\ (TLSBuilt /\ tlsErr = ErrNil) =>
          /\ Len(tlsOptionOverrides) \in {2, 3}
          /\ tlsOptionOverrides[1].field = "MinVersion"
          /\ tlsOptionOverrides[2].field = "MaxVersion"
    /\ mgr.constructed =>
          /\ TLSBuilt /\ tlsErr = ErrNil
          /\ mgr.TLSOpts = tlsOptionOverrides
          /\ mgr.TLSOpts = GetTLSOptionOverrideFuncs(tlsOptions).funcs

C21_Witness ==
    /\ TLSBuilt
    /\ tlsOptions.TLSMinVersion = "TLS12" /\ tlsOptions.TLSMaxVersion = "TLS12"
    /\ tlsOptions.TLSCipherSuites = <<"X">>
    /\ tlsErr = ErrUnknownCipherSuite
    /\ tlsOptionOverrides = <<>>
    /\ pc = "exited" /\ exitCode = 1
    /\ ~mgr.constructed

\* A discovery attempt has succeeded.
DiscoverySucceeded == \E i \in DOMAIN gateTrace : gateTrace[i].ev = "ok"

\* Something failed and ended the process before the run loop was entered.
BootstrapFailed == exitCode = 1 /\ ~mgr.started

\* Nothing is registered and the run loop is not entered.
NothingRegistered ==
    /\ reconcilerCalls = <<>> /\ webhookCalls = <<>>
    /\ mgr.controllers = <<>> /\ mgr.webhooks = <<>>
    /\ ~mgr.started /\ pc # "running"

\* C22: with main scheduled fairly, a run with the readiness switch set
\* keeps retrying (every sleep is followed by another attempt); once a
\* discovery attempt has succeeded the gate returns, and once the gate has
\* returned mgr.Start is entered unless a later step fails; so every run
\* enters mgr.Start, or fails a step, or stays in the retry loop for ever
\* with discovery never succeeding.  As long as no attempt has succeeded,
\* nothing is registered and the run loop is not entered.
C22_ReachesRunLoop ==
    /\ [](waitForMetal3Controller /\ ~DiscoverySucceeded => NothingRegistered)
    /\ (pc = "gate_sleep") ~> (pc = "gate_attempt")
    /\ (pc = "gate_attempt") ~> (pc = "gate_sleep" \/ DiscoverySucceeded)
    /\ DiscoverySucceeded ~> GateReturned
    /\ GateReturned ~> (mgr.started \/ BootstrapFailed)
    /\ \/ <>(mgr.started \/ BootstrapFailed)
       \/ <>[](waitForMetal3Controller /\ pc \in GateLoop /\ ~DiscoverySucceeded)

C22_Witness ==
    /\ waitForMetal3Controller
    /\ Len(gateTrace) = TraceCap
    /\ Failures(gateTrace) = MaxDiscoveryFailures
    /\ gateTrace[TraceCap].ev = "ok"
    /\ GateReturned
    /\ pc = "running" /\ mgr.started
    /\ Len(mgr.controllers) = Len(ReconcilerOrder)
    /\ Len(mgr.webhooks) = Len(WebhookOrder)

====
